---- MODULE Spec2Model ----
(***************************************************************************)
(* A model of neologism's DCFG (src/neologism/dcfg.py): a grammar stored    *)
(* as a networkx MultiDiGraph whose nodes are symbols (str) and rule ids    *)
(* (RuleId), with one edge lhs -> rule id per rule and one edge             *)
(* rule id -> symbol, carrying an "index" attribute, per rhs position.      *)
(***************************************************************************)
EXTENDS Integers, Sequences, FiniteSets, TLC

\* ------------------------------------------------------------------ bounds
MaxRhsLen == 2
MaxRuleId == 3

\* The str values the client passes as symbols.
Symbols == {"A", "b"}

\* Python's None, as the value of DCFG.__start_symbol.
None == "<None>"

\* What __get_lhs_by_rule_id yields when one of its assertions fails.
AssertionError == "<AssertionError>"

RhsUniverse == UNION {[1..n -> Symbols] : n \in 0..MaxRhsLen}

\* Rule(lhs, rhs): an immutable value, equal by (lhs, rhs).
Rule(lhs, rhs) == [lhs |-> lhs, rhs |-> rhs]

RuleUniverse == {Rule(l, r) : l \in Symbols, r \in RhsUniverse}

NoRule == Rule(None, <<>>)

\* --------------------------------------------------------------- the graph
\* networkx.MultiDiGraph(), restricted to what DCFG stores in it:
\*   syms : the str nodes              ids  : the RuleId nodes
\*   prod : the edges lhs -> rule id, as <<lhs, id>>
\*   arcs : the edges rule id -> symbol with index=i, as <<id, i, symbol>>
EmptyGraph == [syms |-> {}, ids |-> {}, prod |-> {}, arcs |-> {}]

\* graph.successors(symbol): the rule ids the symbol has an edge to.
Successors(g, symbol) == {p[2] : p \in {q \in g.prod : q[1] = symbol}}

\* graph.predecessors(symbol): the rule ids that have an edge to the symbol.
Predecessors(g, symbol) == {a[1] : a \in {b \in g.arcs : b[3] = symbol}}

\* graph.predecessors(rule_id): the symbols that have an edge to the rule id.
RulePredecessors(g, rule_id) == {p[1] : p \in {q \in g.prod : q[2] = rule_id}}

\* graph.remove_node(rule_id): the node and every edge at it.
RemoveRuleNode(g, rule_id) ==
    [g EXCEPT !.ids = @ \ {rule_id},
              !.prod = {p \in @ : p[2] # rule_id},
              !.arcs = {a \in @ : a[1] # rule_id}]

\* graph.remove_node(symbol): the node and every edge at it.
RemoveSymbolNode(g, symbol) ==
    [g EXCEPT !.syms = @ \ {symbol},
              !.prod = {p \in @ : p[1] # symbol},
              !.arcs = {a \in @ : a[3] # symbol}]

\* ------------------------------------------------------- private functions
\* The elements of a set of <<index, symbol>> pairs in ascending order
\* (sorted(symbols) in __get_rhs_by_rule_id), projected on the symbol.
RECURSIVE SortedSymbols(_)
SortedSymbols(pairs) ==
    IF pairs = {} THEN <<>>
    ELSE LET m == CHOOSE x \in pairs : \A y \in pairs : x[1] <= y[1]
         IN  <<m[2]>> \o SortedSymbols(pairs \ {m})

get_rhs_by_rule_id(g, rule_id) ==
    SortedSymbols({<<a[2], a[3]>> : a \in {b \in g.arcs : b[1] = rule_id}})

get_lhs_by_rule_id(g, rule_id) ==
    LET lhss == RulePredecessors(g, rule_id)
    IN  IF Cardinality(lhss) = 1 THEN CHOOSE lhs \in lhss : TRUE
        ELSE AssertionError

get_rule_by_id(g, rule_id) ==
    Rule(get_lhs_by_rule_id(g, rule_id), get_rhs_by_rule_id(g, rule_id))

Range(seq) == {seq[i] : i \in DOMAIN seq}

\* rule_exists with the comparison returned from the loop's first iteration.
rule_exists_first_only(g, rule) ==
    /\ rule.lhs \in g.syms
    /\ Successors(g, rule.lhs) # {}
    /\ get_rhs_by_rule_id(g, CHOOSE x \in Successors(g, rule.lhs) :
                                 \A y \in Successors(g, rule.lhs) : x <= y) = rule.rhs

rule_exists(g, rule) ==
    /\ rule.lhs \in g.syms          \* else successors raises NetworkXError
    /\ \E rule_id \in Successors(g, rule.lhs) :
          get_rhs_by_rule_id(g, rule_id) = rule.rhs

\* __remove_rule_by_id without the removal of the symbols left unused.
remove_rule_by_id_keep_symbols(g, rule_id) == RemoveRuleNode(g, rule_id)

\* The graph after __remove_rule_by_id(rule_id).
remove_rule_by_id(g, rule_id) ==
    LET related_symbols ==
            {get_lhs_by_rule_id(g, rule_id)} \cup Range(get_rhs_by_rule_id(g, rule_id))
        g1 == RemoveRuleNode(g, rule_id)
        unused == {symbol \in related_symbols :
                      /\ Predecessors(g1, symbol) = {}
                      /\ Successors(g1, symbol) = {}}
    IN  [g1 EXCEPT !.syms = @ \ unused]

Min(S) == CHOOSE x \in S : \A y \in S : x <= y

\* ---------------------------------------------------------------- queries
rules_of(g) == {get_rule_by_id(g, rule_id) : rule_id \in g.ids}

\* rules_containing looking at the predecessors of the symbol only.
rules_containing_rhs_only(g, symbol) ==
    {get_rule_by_id(g, rule_id) : rule_id \in Predecessors(g, symbol)}

rules_containing_of(g, symbol) ==
    {get_rule_by_id(g, rule_id) :
        rule_id \in Predecessors(g, symbol) \cup Successors(g, symbol)}

\* is_symbol_terminal asking for the predecessors instead of the successors.
is_symbol_terminal_by_predecessors(g, symbol) == Predecessors(g, symbol) = {}

\* is_symbol_terminal(symbol), for a symbol of the grammar.
is_symbol_terminal_of(g, symbol) == Successors(g, symbol) = {}

terminals_of(g) == {s \in g.syms : is_symbol_terminal_of(g, s)}

nonterminals_of(g) == {s \in g.syms : ~is_symbol_terminal_of(g, s)}

\* ---------------------------------------------------------------- utils.py
\* list(graph.successors(symbol)): the rule ids in the order their edges were
\* added, which is the order the ids were minted in.
RECURSIVE Ascending(_)
Ascending(S) ==
    IF S = {} THEN <<>>
    ELSE LET m == Min(S) IN <<m>> \o Ascending(S \ {m})

SymbolSuccessors(g, symbol) == Ascending(Successors(g, symbol))

\* seq without the repetitions of its elements, first occurrences kept.
RECURSIVE Distinct(_)
Distinct(seq) ==
    IF seq = <<>> THEN <<>>
    ELSE LET rest == Distinct(SubSeq(seq, 1, Len(seq) - 1))
             x == seq[Len(seq)]
         IN  IF x \in Range(rest) THEN rest ELSE Append(rest, x)

\* list(graph.successors(rule_id)): the symbols the rule id has an edge to,
\* each once, in the order of the first edge to each.
RuleSuccessors(g, rule_id) == Distinct(get_rhs_by_rule_id(g, rule_id))

\* nodes_traversed: a set of str and RuleId nodes.
NoNodes == [syms |-> {}, ids |-> {}]

\* __is_finite(graph, node, nodes_traversed) for a symbol, for a rule id and
\* for the loop over the successors; the result with the set as it is left.
RECURSIVE is_finite_symbol(_, _, _)
RECURSIVE is_finite_rule(_, _, _)
RECURSIVE is_finite_rules(_, _, _)
RECURSIVE is_finite_symbols(_, _, _)
is_finite_symbol(g, symbol, traversed) ==
    IF symbol \in traversed.syms THEN [finite |-> FALSE, traversed |-> traversed]
    ELSE is_finite_rules(g, SymbolSuccessors(g, symbol),
                         [traversed EXCEPT !.syms = @ \cup {symbol}])

is_finite_rule(g, rule_id, traversed) ==
    IF rule_id \in traversed.ids THEN [finite |-> FALSE, traversed |-> traversed]
    ELSE is_finite_symbols(g, RuleSuccessors(g, rule_id),
                           [traversed EXCEPT !.ids = @ \cup {rule_id}])

is_finite_rules(g, rule_ids, traversed) ==
    IF rule_ids = <<>> THEN [finite |-> TRUE, traversed |-> traversed]
    ELSE LET r == is_finite_rule(g, Head(rule_ids), traversed)
         IN  IF ~r.finite THEN r ELSE is_finite_rules(g, Tail(rule_ids), r.traversed)

is_finite_symbols(g, syms, traversed) ==
    IF syms = <<>> THEN [finite |-> TRUE, traversed |-> traversed]
    ELSE LET r == is_finite_symbol(g, Head(syms), traversed)
         IN  IF ~r.finite THEN r ELSE is_finite_symbols(g, Tail(syms), r.traversed)

is_multidigraph_finite(g, start_node) == is_finite_symbol(g, start_node, NoNodes).finite

Max(S) == CHOOSE x \in S : \A y \in S : y <= x

\* The first loop of __remove_loops at a symbol: graph.remove_edge(symbol,
\* rule_id) for every successor in nodes_traversed.
RemoveEdgesToTraversedRules(g, symbol, traversed) ==
    [g EXCEPT !.prod = {p \in @ : ~(p[1] = symbol /\ p[2] \in traversed.ids)}]

\* graph.remove_edge(rule_id, symbol) of a MultiDiGraph, no key given: of the
\* parallel edges the one added last, which carries the highest index.
LastEdge(g, rule_id, symbol) ==
    <<rule_id, Max({a[2] : a \in {b \in g.arcs : b[1] = rule_id /\ b[3] = symbol}}), symbol>>

\* The first loop of __remove_loops at a rule id removing an edge to every
\* successor, in nodes_traversed or not.
RemoveEdgesToSymbols(g, rule_id, traversed) ==
    [g EXCEPT !.arcs = @ \ {LastEdge(g, rule_id, symbol) :
                               symbol \in Range(RuleSuccessors(g, rule_id))}]

\* The first loop of __remove_loops at a rule id: one remove_edge for every
\* successor in nodes_traversed, each successor being listed once.
RemoveEdgesToTraversedSymbols(g, rule_id, traversed) ==
    [g EXCEPT !.arcs = @ \ {LastEdge(g, rule_id, symbol) :
                               symbol \in Range(RuleSuccessors(g, rule_id)) \cap traversed.syms}]

\* __remove_loops(graph, node, nodes_traversed) for a symbol, for a rule id
\* and for the second loop over the successors. The result is the graph and
\* the set as they are left, and the exception raised, None when none is.
RECURSIVE remove_loops_symbol(_, _, _)
RECURSIVE remove_loops_rule(_, _, _)
RECURSIVE remove_loops_rules(_, _, _)
RECURSIVE remove_loops_symbols(_, _, _)
remove_loops_symbol(g, symbol, traversed) ==
    LET t1 == [traversed EXCEPT !.syms = @ \cup {symbol}]
        g1 == RemoveEdgesToTraversedRules(g, symbol, t1)
        r == remove_loops_rules(g1, SymbolSuccessors(g1, symbol), t1)
    IN  IF r.raised # None THEN r
        ELSE IF symbol \notin r.traversed.syms THEN [r EXCEPT !.raised = "KeyError"]
        ELSE [r EXCEPT !.traversed.syms = @ \ {symbol}]

remove_loops_rule(g, rule_id, traversed) ==
    LET t1 == [traversed EXCEPT !.ids = @ \cup {rule_id}]
        g1 == RemoveEdgesToTraversedSymbols(g, rule_id, t1)
        r == remove_loops_symbols(g1, RuleSuccessors(g1, rule_id), t1)
    IN  IF r.raised # None THEN r
        ELSE IF rule_id \notin r.traversed.ids THEN [r EXCEPT !.raised = "KeyError"]
        ELSE [r EXCEPT !.traversed.ids = @ \ {rule_id}]

remove_loops_rules(g, rule_ids, traversed) ==
    IF rule_ids = <<>> THEN [graph |-> g, traversed |-> traversed, raised |-> None]
    ELSE LET r == remove_loops_rule(g, Head(rule_ids), traversed)
         IN  IF r.raised # None THEN r
             ELSE remove_loops_rules(r.graph, Tail(rule_ids), r.traversed)

remove_loops_symbols(g, syms, traversed) ==
    IF syms = <<>> THEN [graph |-> g, traversed |-> traversed, raised |-> None]
    ELSE LET r == remove_loops_symbol(g, Head(syms), traversed)
         IN  IF r.raised # None THEN r
             ELSE remove_loops_symbols(r.graph, Tail(syms), r.traversed)

remove_loops_from_multidigraph(g, start_node) == remove_loops_symbol(g, start_node, NoNodes)

\* ---------------------------------------------------- get_all_combinations
MaxPositions == 2
MaxAlternatives == 2

\* The lists a caller passes as one possibility of a position.
Possibilities == {<<>>, <<"x">>, <<"x", "y">>}

\* The arguments of get_all_combinations: a list of lists of possibilities.
PossibilityLists == UNION {[1..n -> Possibilities] : n \in 0..MaxAlternatives}

PositionLists == UNION {[1..n -> PossibilityLists] : n \in 0..MaxPositions}

\* A list followed by n deep copies of it.
RECURSIVE WithCopies(_, _)
WithCopies(list, n) == IF n <= 0 THEN list ELSE WithCopies(list, n - 1) \o list

\* One pass of the outer loop with range(len(possibilities_in_position)), one
\* copy too many.
ExtendByPositionOneMore(combinations_orig, possibilities_in_position) ==
    LET combinations_orig_len == Len(combinations_orig)
        extended == WithCopies(combinations_orig, Len(possibilities_in_position))
    IN  [idx \in 1..Len(extended) |->
            IF idx <= Len(possibilities_in_position) * combinations_orig_len
            THEN extended[idx]
                     \o possibilities_in_position[((idx - 1) \div combinations_orig_len) + 1]
            ELSE extended[idx]]

\* One pass of the outer loop: the list is extended by len - 1 copies of
\* itself, then possibility j is appended to each combination of block j.
ExtendByPosition(combinations_orig, possibilities_in_position) ==
    LET combinations_orig_len == Len(combinations_orig)
        extended == WithCopies(combinations_orig, Len(possibilities_in_position) - 1)
    IN  [idx \in 1..Len(extended) |->
            IF idx <= Len(possibilities_in_position) * combinations_orig_len
            THEN extended[idx]
                     \o possibilities_in_position[((idx - 1) \div combinations_orig_len) + 1]
            ELSE extended[idx]]

RECURSIVE get_all_combinations(_)
get_all_combinations(possibilites_in_each_position) ==
    IF possibilites_in_each_position = <<>> THEN << <<>> >>
    ELSE LET n == Len(possibilites_in_each_position)
         IN  ExtendByPosition(get_all_combinations(SubSeq(possibilites_in_each_position, 1, n - 1)),
                              possibilites_in_each_position[n])

\* No call of get_all_combinations has been made.
NoCombinations == [positions |-> <<>>, result |-> <<>>]

\* utils.merge_expansions(expansions_of_each_rhs_symbol): every choice of one
\* expansion per position, concatenated in position order.
RECURSIVE merge_expansions(_)
merge_expansions(expansions) ==
    IF expansions = <<>> THEN {<<>>}
    ELSE LET n == Len(expansions)
         IN  {front \o back : front \in merge_expansions(SubSeq(expansions, 1, n - 1)),
                              back \in expansions[n]}

\* __expand_symbol and __expand_rhs_of_rule_by_id, the expansions as a set:
\* sentences turns the list into a set of tuples.
RECURSIVE expand_symbol(_, _)
RECURSIVE expand_rhs_of_rule_by_id(_, _)
expand_rhs_of_rule_by_id(g, rule_id) ==
    LET rhs == get_rhs_by_rule_id(g, rule_id)
    IN  merge_expansions([i \in DOMAIN rhs |-> expand_symbol(g, rhs[i])])

\* __expand_symbol assigning the expansions of each rule id instead of
\* extending the list: the expansions of the rule id added last are left.
expand_symbol_last_rule(g, symbol) ==
    IF is_symbol_terminal_of(g, symbol) THEN {<<symbol>>}
    ELSE expand_rhs_of_rule_by_id(g, Max(Successors(g, symbol)))

\* __expand_symbol returning the expansions of the first rule id alone.
expand_symbol_first_rule(g, symbol) ==
    IF is_symbol_terminal_of(g, symbol) THEN {<<symbol>>}
    ELSE expand_rhs_of_rule_by_id(g, Min(Successors(g, symbol)))

expand_symbol(g, symbol) ==
    IF is_symbol_terminal_of(g, symbol) THEN {<<symbol>>}
    ELSE UNION {expand_rhs_of_rule_by_id(g, rule_id) : rule_id \in Successors(g, symbol)}

\* ------------------------------------------------------------------ state
\* graph, next_rule_id, start_symbol: the fields of the DCFG the client calls.
\* copies: the store the client's last copy() returned, if there is one.
\* combinations: the argument and the result of a call of get_all_combinations.
VARIABLES graph, next_rule_id, start_symbol, last, copies, combinations

vars == <<graph, next_rule_id, start_symbol, last, copies, combinations>>

\* The call that was made last and how it ended: "ok" or the exception.
Call(op, rule, sym, result) ==
    [op |-> op, rule |-> rule, sym |-> sym, result |-> result]

Init ==
    /\ graph = EmptyGraph
    /\ next_rule_id = 0
    /\ start_symbol = None
    /\ last = Call("init", NoRule, None, "ok")
    /\ copies = <<>>
    /\ combinations = NoCombinations

rules == rules_of(graph)
symbols == graph.syms
terminals == terminals_of(graph)
nonterminals == nonterminals_of(graph)
rules_containing(symbol) == rules_containing_of(graph, symbol)
is_symbol_terminal(symbol) == is_symbol_terminal_of(graph, symbol)

\* ------------------------------------------------------------- operations
\* add_rule's add_edge loops giving every edge of the rhs the index 0.
AddEdgesWithoutIndex(g, rule, rule_id) ==
    [syms |-> g.syms \cup {rule.lhs} \cup Range(rule.rhs),
     ids  |-> g.ids \cup {rule_id},
     prod |-> g.prod \cup {<<rule.lhs, rule_id>>},
     arcs |-> g.arcs \cup {<<rule_id, 0, rule.rhs[i]>> : i \in DOMAIN rule.rhs}]

\* The graph after add_rule's two add_edge loops for a new rule.
AddEdges(g, rule, rule_id) ==
    [syms |-> g.syms \cup {rule.lhs} \cup Range(rule.rhs),
     ids  |-> g.ids \cup {rule_id},
     prod |-> g.prod \cup {<<rule.lhs, rule_id>>},
     arcs |-> g.arcs \cup {<<rule_id, i - 1, rule.rhs[i]>> : i \in DOMAIN rule.rhs}]

add_rule(rule) ==
    /\ IF rule_exists(graph, rule)
       THEN UNCHANGED <<graph, next_rule_id>>
       ELSE /\ next_rule_id < MaxRuleId
            /\ graph' = AddEdges(graph, rule, next_rule_id)
            /\ next_rule_id' = next_rule_id + 1
    /\ UNCHANGED <<start_symbol, copies, combinations>>
    /\ last' = Call("add_rule", rule, None, "ok")

\* remove_rule's loop leaving at the first rule id that matches.
RemoveFirstMatching(g, rule_ids, rhs) ==
    LET matching == {rule_id \in rule_ids : get_rhs_by_rule_id(g, rule_id) = rhs}
    IN  IF matching = {} THEN g ELSE remove_rule_by_id(g, Min(matching))

\* The graph after remove_rule's loop over possible_rule_ids (the successors of
\* rule.lhs when the call began, in the order they were added).
RECURSIVE RemoveMatching(_, _, _)
RemoveMatching(g, rule_ids, rhs) ==
    IF rule_ids = {} THEN g
    ELSE LET rule_id == Min(rule_ids)
             g1 == IF get_rhs_by_rule_id(g, rule_id) = rhs
                   THEN remove_rule_by_id(g, rule_id)
                   ELSE g
         IN  RemoveMatching(g1, rule_ids \ {rule_id}, rhs)

\* rule_found at the end of remove_rule's loop.
RuleFound(g, rule_ids, rhs) ==
    \E rule_id \in rule_ids : get_rhs_by_rule_id(g, rule_id) = rhs

remove_rule(rule) ==
    /\ IF rule.lhs \notin graph.syms
       THEN \* graph.successors(rule.lhs) raises
            /\ last' = Call("remove_rule", rule, None, "NetworkXError")
            /\ UNCHANGED graph
       ELSE LET possible_rule_ids == Successors(graph, rule.lhs)
            IN  /\ graph' = RemoveMatching(graph, possible_rule_ids, rule.rhs)
                /\ last' = Call("remove_rule", rule, None,
                                IF RuleFound(graph, possible_rule_ids, rule.rhs)
                                THEN "ok" ELSE "ValueError")
    /\ UNCHANGED <<next_rule_id, start_symbol, copies, combinations>>

\* The graph after make_symbol_terminal's loop over rule_ids.
RECURSIVE RemoveAll(_, _)
RemoveAll(g, rule_ids) ==
    IF rule_ids = {} THEN g
    ELSE LET rule_id == Min(rule_ids)
         IN  RemoveAll(remove_rule_by_id(g, rule_id), rule_ids \ {rule_id})

\* make_symbol_terminal leaving the productions of the symbol in place.
KeepProductions(g, symbol) == g

\* The graph after a make_symbol_terminal(symbol) that does not raise.
MakeTerminal(g, symbol) == RemoveAll(g, Successors(g, symbol))

make_symbol_terminal(symbol) ==
    /\ IF symbol \notin graph.syms
       THEN /\ last' = Call("make_symbol_terminal", NoRule, symbol, "ValueError")
            /\ UNCHANGED graph
       ELSE /\ graph' = MakeTerminal(graph, symbol)
            /\ last' = Call("make_symbol_terminal", NoRule, symbol, "ok")
    /\ UNCHANGED <<next_rule_id, start_symbol, copies, combinations>>

remove_symbol(symbol) ==
    /\ IF symbol \notin graph.syms
       THEN \* make_symbol_terminal raises
            /\ last' = Call("remove_symbol", NoRule, symbol, "ValueError")
            /\ UNCHANGED graph
       ELSE LET g1 == MakeTerminal(graph, symbol)
            IN  IF symbol \notin g1.syms
                THEN \* graph.remove_node(symbol) raises
                     /\ graph' = g1
                     /\ last' = Call("remove_symbol", NoRule, symbol, "NetworkXError")
                ELSE /\ graph' = RemoveSymbolNode(g1, symbol)
                     /\ last' = Call("remove_symbol", NoRule, symbol, "ok")
    /\ UNCHANGED <<next_rule_id, start_symbol, copies, combinations>>

\* The start_symbol getter computing the default on every read.
StartSymbolRecomputed(g, stored) ==
    IF g.ids # {} THEN get_lhs_by_rule_id(g, Min(g.ids)) ELSE None

\* The start_symbol getter: the value it returns, which it also stores.
StartSymbolValue(g, stored) ==
    IF stored = None \/ stored \notin g.syms
    THEN IF g.ids # {}
         THEN get_lhs_by_rule_id(g, Min(g.ids))
         ELSE None
    ELSE stored

get_start_symbol ==
    /\ start_symbol' = StartSymbolValue(graph, start_symbol)
    /\ last' = Call("get_start_symbol", NoRule, start_symbol', "ok")
    /\ UNCHANGED <<graph, next_rule_id, copies, combinations>>

set_start_symbol(symbol) ==
    /\ IF symbol \notin graph.syms
       THEN /\ last' = Call("set_start_symbol", NoRule, symbol, "ValueError")
            /\ UNCHANGED start_symbol
       ELSE /\ start_symbol' = symbol
            /\ last' = Call("set_start_symbol", NoRule, symbol, "ok")
    /\ UNCHANGED <<graph, next_rule_id, copies, combinations>>

\* A DCFG as a value: its __graph, __next_rule_id and __start_symbol.
Store(g, n, stored) == [graph |-> g, next_rule_id |-> n, start_symbol |-> stored]

\* The store that add_rule(rule) makes of a store.
add_rule_to(store, rule) ==
    IF rule_exists(store.graph, rule) THEN store
    ELSE [store EXCEPT !.graph = AddEdges(@, rule, store.next_rule_id),
                       !.next_rule_id = @ + 1]

\* DCFG() and one add_rule for each rule of the sequence, in its order.
RECURSIVE Built(_)
Built(rule_seq) ==
    IF rule_seq = <<>> THEN Store(EmptyGraph, 0, None)
    ELSE add_rule_to(Built(SubSeq(rule_seq, 1, Len(rule_seq) - 1)), rule_seq[Len(rule_seq)])

\* copy() leaving the __start_symbol of the new DCFG as the constructor set it.
copy_without_start_symbol(store) == Store(store.graph, store.next_rule_id, None)

\* copy() leaving the __next_rule_id of the new DCFG as the constructor set it.
copy_with_new_counter(store) == Store(store.graph, 0, store.start_symbol)

\* copy(): a new DCFG with a copy of the graph, the counter and the start symbol.
copy_of(store) == Store(store.graph, store.next_rule_id, store.start_symbol)

copy ==
    /\ copies' = <<copy_of(Store(graph, next_rule_id, start_symbol))>>
    /\ last' = Call("copy", NoRule, None, "ok")
    /\ UNCHANGED <<graph, next_rule_id, start_symbol, combinations>>

\* The client goes on calling the copy and keeps the store it called so far.
use_copy ==
    /\ copies # <<>>
    /\ graph' = copies[1].graph
    /\ next_rule_id' = copies[1].next_rule_id
    /\ start_symbol' = copies[1].start_symbol
    /\ copies' = <<Store(graph, next_rule_id, start_symbol)>>
    /\ last' = Call("use_copy", NoRule, None, "ok")
    /\ UNCHANGED combinations

\* is_finite() once the start symbol is read.
is_finite_of(g, start) ==
    IF start = None THEN TRUE ELSE is_multidigraph_finite(g, start)

is_finite ==
    /\ start_symbol' = StartSymbolValue(graph, start_symbol)
    /\ last' = Call("is_finite", NoRule, None,
                    IF is_finite_of(graph, start_symbol') THEN "True" ELSE "False")
    /\ UNCHANGED <<graph, next_rule_id, copies, combinations>>

\* sentences with dcfg left to be self: the loops are removed from the graph
\* of the store that was asked.
remove_loops_in_place(store) ==
    LET r == remove_loops_from_multidigraph(
                 store.graph, StartSymbolValue(store.graph, store.start_symbol))
        pruned == [store EXCEPT !.graph = r.graph]
    IN  [self |-> pruned, dcfg |-> pruned, raised |-> r.raised]

\* dcfg = self.copy() and remove_loops_from_multidigraph(dcfg.__graph,
\* dcfg.start_symbol): both stores afterwards, and the exception raised.
remove_loops_on_copy(store) ==
    LET dcfg == copy_of(store)
        r == remove_loops_from_multidigraph(
                 dcfg.graph, StartSymbolValue(dcfg.graph, dcfg.start_symbol))
    IN  [self |-> store, dcfg |-> [dcfg EXCEPT !.graph = r.graph], raised |-> r.raised]

\* The sentences getter: the store afterwards, the set returned and the
\* exception raised, None when the getter returns.
sentences_of(store) ==
    LET start == StartSymbolValue(store.graph, store.start_symbol)
        self == [store EXCEPT !.start_symbol = start]
    IN  IF start = None THEN [self |-> self, value |-> {}, raised |-> None]
        ELSE IF is_finite_of(self.graph, start)
        THEN [self |-> self, value |-> expand_symbol(self.graph, start), raised |-> None]
        ELSE LET p == remove_loops_on_copy(self)
             IN  IF p.raised # None
                 THEN [self |-> p.self, value |-> {}, raised |-> p.raised]
                 ELSE [self |-> p.self,
                       value |-> expand_symbol(
                           p.dcfg.graph,
                           StartSymbolValue(p.dcfg.graph, p.dcfg.start_symbol)),
                       raised |-> None]

sentences ==
    \E r \in {sentences_of(Store(graph, next_rule_id, start_symbol))} :
        /\ graph' = r.self.graph
        /\ next_rule_id' = r.self.next_rule_id
        /\ start_symbol' = r.self.start_symbol
        /\ last' = Call("sentences", NoRule, None,
                        IF r.raised = None THEN "ok" ELSE r.raised)
        /\ UNCHANGED <<copies, combinations>>

Next ==
    \/ \E rule \in RuleUniverse : add_rule(rule)
    \/ \E rule \in RuleUniverse : remove_rule(rule)
    \/ \E symbol \in Symbols : make_symbol_terminal(symbol)
    \/ \E symbol \in Symbols : remove_symbol(symbol)
    \/ \E symbol \in Symbols : set_start_symbol(symbol)
    \/ get_start_symbol

Spec == Init /\ [][Next]_vars

\* The store when the client never assigns start_symbol.
NextDefault ==
    \/ \E rule \in RuleUniverse : add_rule(rule)
    \/ \E rule \in RuleUniverse : remove_rule(rule)
    \/ \E symbol \in Symbols : make_symbol_terminal(symbol)
    \/ \E symbol \in Symbols : remove_symbol(symbol)
    \/ get_start_symbol

SpecDefault == Init /\ [][NextDefault]_vars

\* The rules of a client that works with a store and a copy of it.
CopyRules == {Rule("A", <<"b">>), Rule("b", <<"A", "b">>)}

\* A store and its copy, each mutated in turn.
NextCopy ==
    \/ \E rule \in CopyRules : add_rule(rule)
    \/ \E rule \in CopyRules : remove_rule(rule)
    \/ \E symbol \in Symbols : make_symbol_terminal(symbol)
    \/ \E symbol \in Symbols : remove_symbol(symbol)
    \/ \E symbol \in Symbols : set_start_symbol(symbol)
    \/ copy
    \/ use_copy

SpecCopy == Init /\ [][NextCopy]_vars

\* The symbols and rules of a client that builds a grammar and reads its
\* sentences: two symbols with productions and one without.
BuildSymbols == {"S", "A", "a"}

BuildRules ==
    {Rule(l, r) : l \in {"S", "A"},
                  r \in UNION {[1..n -> BuildSymbols] : n \in 0..MaxRhsLen}}

\* A grammar built by add_rule alone and read by is_finite and sentences.
NextBuild ==
    \/ \E rule \in BuildRules : add_rule(rule)
    \/ is_finite
    \/ sentences

SpecBuild == Init /\ [][NextBuild]_vars

\* Grammars of three nonterminals that produce each other, built rule by rule.
LoopRules ==
    {Rule("S", <<"X", "Y">>), Rule("S", <<"Y">>), Rule("X", <<"Y">>),
     Rule("X", <<"a">>), Rule("Y", <<"X">>), Rule("Y", <<"Y", "a">>)}

NextLoops == \E rule \in LoopRules : add_rule(rule)

SpecLoops == Init /\ [][NextLoops]_vars

\* The store mutated and read: every mutation, is_finite and sentences.
NextRead ==
    \/ \E rule \in RuleUniverse : add_rule(rule)
    \/ \E rule \in RuleUniverse : remove_rule(rule)
    \/ \E symbol \in Symbols : make_symbol_terminal(symbol)
    \/ \E symbol \in Symbols : remove_symbol(symbol)
    \/ \E symbol \in Symbols : set_start_symbol(symbol)
    \/ is_finite
    \/ sentences

SpecRead == Init /\ [][NextRead]_vars

\* A caller of get_all_combinations with its argument at hand.
InitCombinations ==
    /\ graph = EmptyGraph
    /\ next_rule_id = 0
    /\ start_symbol = None
    /\ last = Call("init", NoRule, None, "ok")
    /\ copies = <<>>
    /\ \E positions \in PositionLists :
          combinations = [positions |-> positions, result |-> <<>>]

call_get_all_combinations ==
    /\ last.op = "init"
    /\ combinations' = [combinations EXCEPT !.result = get_all_combinations(combinations.positions)]
    /\ last' = Call("get_all_combinations", NoRule, None, "ok")
    /\ UNCHANGED <<graph, next_rule_id, start_symbol, copies>>

NextCombinations == call_get_all_combinations

SpecCombinations == InitCombinations /\ [][NextCombinations]_vars

TypeOK ==
    /\ graph.syms \subseteq Symbols
    /\ next_rule_id \in 0..MaxRuleId
    /\ start_symbol \in Symbols \cup {None}

\* ------------------------------------------------------------ the claims
\* rhs with every occurrence of symbol deleted, the rest in order.
Without(rhs, symbol) == SelectSeq(rhs, LAMBDA x : x # symbol)

\* The rules that mention the symbol, by the rules' own content.
Mentioning(rs, symbol) == {r \in rs : r.lhs = symbol \/ symbol \in Range(r.rhs)}

\* C1: for every symbol s of the grammar, is_symbol_terminal(s) is true
\* exactly when no rule of `rules` has lhs s; terminals and nonterminals are
\* disjoint and together make up symbols.
C1_StructuralTerminality ==
    /\ \A s \in symbols :
          is_symbol_terminal(s) <=> ~(\E r \in rules : r.lhs = s)
    /\ terminals \cap nonterminals = {}
    /\ terminals \cup nonterminals = symbols

\* A removal has run and the grammar has both a terminal and a nonterminal.
C1_Witness ==
    /\ last.op \in {"remove_rule", "remove_symbol", "make_symbol_terminal"}
    /\ last.result = "ok"
    /\ terminals # {}
    /\ nonterminals # {}

\* C2: add_rule(r) with r already in `rules` changes nothing: same rules, same
\* symbols, same graph, no RuleId minted.
C2_AddRuleIdempotent ==
    [][(last'.op = "add_rule" /\ last'.rule \in rules) =>
          /\ rules' = rules
          /\ symbols' = symbols
          /\ graph' = graph
          /\ next_rule_id' = next_rule_id]_vars

\* add_rule(r) has run on a grammar that held r already: r is stored, and not
\* under the id the allocator handed out last.
C2_Witness ==
    /\ last.op = "add_rule"
    /\ last.rule \in rules
    /\ next_rule_id > 0
    /\ \A rule_id \in graph.ids :
          get_rule_by_id(graph, rule_id) = last.rule => rule_id < next_rule_id - 1

\* C3: for every symbol s of the grammar rules_containing(s) is the set of the
\* rules with lhs s or with s in their rhs; right after add_rule(r), r is in
\* rules, in rules_containing(r.lhs) and in rules_containing(x) for x in r.rhs.
C3_RulesContaining ==
    /\ \A s \in symbols : rules_containing(s) = Mentioning(rules, s)
    /\ last.op = "add_rule" =>
          /\ last.rule \in rules
          /\ last.rule \in rules_containing(last.rule.lhs)
          /\ \A x \in Range(last.rule.rhs) : last.rule \in rules_containing(x)

\* A rule with a non-empty rhs was just added and some symbol's rules are a
\* proper, non-empty part of the grammar's rules.
C3_Witness ==
    /\ last.op = "add_rule"
    /\ last.rule.rhs # <<>>
    /\ \E s \in symbols : rules_containing(s) # {} /\ rules_containing(s) # rules

\* C4: remove_rule(r) with r in `rules` succeeds and leaves exactly the other
\* rules.
C4_RemoveRule ==
    [][(last'.op = "remove_rule" /\ last'.rule \in rules) =>
          /\ last'.result = "ok"
          /\ rules' = rules \ {last'.rule}]_vars

\* A rule was removed and another rule of the same lhs is still there.
C4_Witness ==
    /\ last.op = "remove_rule"
    /\ last.result = "ok"
    /\ \E r \in rules : r.lhs = last.rule.lhs

C6_MakeSymbolTerminal ==
    [][(last'.op = "make_symbol_terminal" /\ last'.result = "ok") =>
          LET s == last'.sym
          IN  /\ s \in symbols'
              /\ is_symbol_terminal_of(graph', s)
              /\ {r \in rules' : r.lhs = s} = {}
              /\ {r \in rules' : r.lhs # s} = {r \in rules : r.lhs # s}]_vars

\* C7: after a successful remove_symbol(s), s is no symbol, no rule has lhs
\* s, the rules are the former rules of other lhs with s deleted from their
\* rhs, and every symbol a remaining rule mentions is a symbol.
C7_RemoveSymbol ==
    [][(last'.op = "remove_symbol" /\ last'.result = "ok") =>
          LET s == last'.sym
          IN  /\ s \notin symbols'
              /\ {r \in rules' : r.lhs = s} = {}
              /\ rules' = {Rule(r.lhs, Without(r.rhs, s)) :
                              r \in {q \in rules : q.lhs # s}}
              /\ \A x \in symbols \ {s} :
                    Mentioning(rules', x) # {} => x \in symbols']_vars

\* A symbol was removed and a remaining rule has lost a position of its rhs:
\* it has an edge whose index is beyond the number of its edges.
C7_Witness ==
    /\ last.op = "remove_symbol"
    /\ last.result = "ok"
    /\ \E a \in graph.arcs :
          a[2] >= Cardinality({b \in graph.arcs : b[1] = a[1]})

\* C8: remove_symbol(s) completes for every s in `symbols` and fails with
\* ValueError for every other s.
C8_RemoveSymbolErrors ==
    [][last'.op = "remove_symbol" =>
          last'.result = (IF last'.sym \in symbols THEN "ok" ELSE "ValueError")]_vars

\* C9: a mutation that ends in an error leaves rules, symbols, the RuleId
\* counter and the start symbol as they were.
C9_AllOrNothing ==
    [][(/\ last'.op \in {"add_rule", "remove_rule", "remove_symbol",
                         "make_symbol_terminal", "set_start_symbol"}
        /\ last'.result # "ok") =>
          /\ rules' = rules
          /\ symbols' = symbols
          /\ next_rule_id' = next_rule_id
          /\ start_symbol' = start_symbol]_vars

\* C10: remove_rule(r) with r not in `rules` fails with ValueError and removes
\* nothing.
C10_RemoveRuleNotFound ==
    [][(last'.op = "remove_rule" /\ last'.rule \notin rules) =>
          /\ last'.result = "ValueError"
          /\ rules' = rules
          /\ symbols' = symbols]_vars

\* The lhs of the rule with the smallest RuleId present, None without rules.
LowestRuleLhs == IF graph.ids = {} THEN None ELSE get_lhs_by_rule_id(graph, Min(graph.ids))

\* C11: with no start symbol ever assigned, start_symbol returns the lhs of
\* the rule with the smallest RuleId present, and None when there is no rule,
\* whatever was added, removed or read before.
C11_DefaultStartSymbol == StartSymbolValue(graph, start_symbol) = LowestRuleLhs

\* C12: assigning a symbol that is not in the grammar fails with ValueError
\* and keeps the start symbol; assigning a symbol of the grammar succeeds and
\* start_symbol returns it, and goes on returning it across every later call
\* that is no assignment and leaves the symbol in `symbols`.
C12_ExplicitStartSymbol ==
    [][/\ (last'.op = "set_start_symbol" /\ last'.sym \notin symbols) =>
             /\ last'.result = "ValueError"
             /\ start_symbol' = start_symbol
       /\ (last'.op = "set_start_symbol" /\ last'.sym \in symbols) =>
             /\ last'.result = "ok"
             /\ StartSymbolValue(graph', start_symbol') = last'.sym
       /\ (/\ last'.op # "set_start_symbol"
           /\ start_symbol \in symbols
           /\ start_symbol \in symbols') =>
             StartSymbolValue(graph', start_symbol') = start_symbol]_vars

\* A rule was added or removed and the start symbol in effect is a symbol of
\* the grammar other than the lhs of the lowest rule.
C12_Witness ==
    /\ last.op \in {"add_rule", "remove_rule"}
    /\ last.result = "ok"
    /\ graph.ids # {}
    /\ start_symbol \in symbols
    /\ StartSymbolValue(graph, start_symbol) = start_symbol
    /\ start_symbol # LowestRuleLhs

\* The store the client holds a copy of as `copies`.
Copied == copies[1]

Mutations ==
    {"add_rule", "remove_rule", "remove_symbol", "make_symbol_terminal", "set_start_symbol"}

\* C13: copy() returns a store with the rules, symbols, start symbol and
\* RuleId counter of the original and leaves the original as it is; a
\* mutation of one of the two stores leaves the rules, symbols and start
\* symbol of the other as they were.
C13_Copy ==
    [][/\ last'.op = "copy" =>
             /\ rules_of(Copied'.graph) = rules
             /\ Copied'.graph.syms = symbols
             /\ StartSymbolValue(Copied'.graph, Copied'.start_symbol)
                    = StartSymbolValue(graph, start_symbol)
             /\ Copied'.next_rule_id = next_rule_id
             /\ <<graph', next_rule_id', start_symbol'>> = <<graph, next_rule_id, start_symbol>>
       /\ (last'.op \in Mutations /\ copies # <<>>) =>
             /\ copies' # <<>>
             /\ rules_of(Copied'.graph) = rules_of(Copied.graph)
             /\ Copied'.graph.syms = Copied.graph.syms
             /\ StartSymbolValue(Copied'.graph, Copied'.start_symbol)
                    = StartSymbolValue(Copied.graph, Copied.start_symbol)]_vars

\* A store with an assigned start symbol that is not the default was copied
\* and mutated afterwards: the two differ in their rules, and the start
\* symbol of the copy is still the assigned one.
C13_Witness ==
    /\ copies # <<>>
    /\ last.op \in Mutations
    /\ last.result = "ok"
    /\ rules_of(Copied.graph) # rules
    /\ Copied.graph.ids # {}
    /\ Copied.start_symbol \in Copied.graph.syms
    /\ Copied.start_symbol # get_lhs_by_rule_id(Copied.graph, Min(Copied.graph.ids))

\* The symbols that a derivation from one of `from` can come to, by the
\* rules' own content; `from` included.
RECURSIVE Reachable(_, _)
Reachable(rs, from) ==
    LET more == from \cup UNION {Range(r.rhs) : r \in {q \in rs : q.lhs \in from}}
    IN  IF more = from THEN from ELSE Reachable(rs, more)

\* Some symbol that a derivation from start can come to occurs again in a
\* derivation from itself.
HasReachableCycle(rs, start) ==
    \E x \in Reachable(rs, {start}) :
        x \in Reachable(rs, UNION {Range(r.rhs) : r \in {q \in rs : q.lhs = x}})

\* C14: is_finite() returns false exactly when a node reachable from the
\* start symbol lies on a cycle; a grammar without a cycle in which a symbol
\* is reached by two branches is reported finite.
C14_IsFinite ==
    last.op = "is_finite" =>
        (last.result = "False" <=> HasReachableCycle(rules, start_symbol))

\* C15: for every graph and start node, is_multidigraph_finite is true of
\* the graph that remove_loops_from_multidigraph leaves when it returns.
C15_LoopFreeIsFinite ==
    \A start \in symbols :
        LET r == remove_loops_from_multidigraph(graph, start)
        IN  r.raised = None => is_multidigraph_finite(r.graph, start)

\* The terminal sequences derivable from a symbol by the rules' own content:
\* a symbol without a rule gives itself; a symbol with rules gives, for each
\* of its rules, every concatenation in position order of one sequence per
\* position of the rhs, the empty rhs giving the empty sequence.
RECURSIVE Derivable(_, _)
RECURSIVE DerivableRhs(_, _)
DerivableRhs(rs, rhs) ==
    IF rhs = <<>> THEN {<<>>}
    ELSE {x \o y : x \in Derivable(rs, Head(rhs)), y \in DerivableRhs(rs, Tail(rhs))}

Derivable(rs, symbol) ==
    IF \A r \in rs : r.lhs # symbol THEN {<<symbol>>}
    ELSE UNION {DerivableRhs(rs, r.rhs) : r \in {q \in rs : q.lhs = symbol}}

\* What the sentences getter returns in the current state.
SentencesValue == sentences_of(Store(graph, next_rule_id, start_symbol)).value

\* The start symbol a read finds in the current state.
StartSymbol == StartSymbolValue(graph, start_symbol)

\* C16: on a grammar with a start symbol and without a reachable cycle,
\* sentences returns the set of the terminal sequences derivable from the
\* start symbol.
C16_FiniteSentences ==
    [][(/\ last'.op = "sentences"
        /\ StartSymbol # None
        /\ ~HasReachableCycle(rules, StartSymbol)) =>
          /\ last'.result = "ok"
          /\ SentencesValue = Derivable(rules, StartSymbol)]_vars

\* sentences was read on a grammar without a cycle in which a symbol is
\* reached by two branches, and it has more than one sentence.
C16_Witness ==
    /\ last.op = "sentences"
    /\ last.result = "ok"
    /\ ~HasReachableCycle(rules, start_symbol)
    /\ ~is_finite_of(graph, start_symbol)
    /\ Cardinality(SentencesValue) > 1
    /\ \E sentence \in SentencesValue : Len(sentence) > 1

\* Scenario 2 of the specification: S -> A, A -> a A, A -> (empty).
Scenario2 == {Rule("S", <<"A">>), Rule("A", <<"a", "A">>), Rule("A", <<>>)}

\* C17: on a grammar with a reachable cycle is_finite() is false and
\* sentences returns a set; for S -> A, A -> a A, A -> (empty) the set
\* contains () and (a).
C17_InfiniteSentences ==
    [][(/\ last'.op = "sentences"
        /\ StartSymbol # None
        /\ HasReachableCycle(rules, StartSymbol)) =>
          /\ ~is_finite_of(graph, StartSymbol)
          /\ last'.result = "ok"
          /\ (rules = Scenario2 /\ StartSymbol = "S") =>
                {<<>>, <<"a">>} \subseteq SentencesValue]_vars

\* The spans <<x, i, j>> such that symbol x derives positions i+1..j of the
\* sequence w by the rules rs, given that the spans in D are derived.
RECURSIVE RhsSpans(_, _, _, _)
RhsSpans(D, rhs, i, j) ==
    IF rhs = <<>> THEN i = j
    ELSE \E m \in i..j : <<Head(rhs), i, m>> \in D /\ RhsSpans(D, Tail(rhs), m, j)

RECURSIVE Spans(_, _, _)
Spans(rs, w, D) ==
    LET more == D \cup {<<r.lhs, i, j>> : r \in rs, i \in 0..Len(w), j \in 0..Len(w)}
        step == {d \in more : d \in D \/ \E r \in rs :
                                  r.lhs = d[1] /\ d[2] <= d[3] /\ RhsSpans(D, r.rhs, d[2], d[3])}
    IN  IF step = D THEN D ELSE Spans(rs, w, step)

\* w is a terminal sequence derivable from start by the rules rs: there is a
\* finite derivation, whether or not rs has cycles.
IsDerivable(rs, start, w) ==
    LET leaves == {<<w[i], i - 1, i>> : i \in {k \in DOMAIN w : \A r \in rs : r.lhs # w[k]}}
    IN  <<start, 0, Len(w)>> \in Spans(rs, w, leaves)

\* C18: every sequence sentences returns consists of terminals of the
\* grammar and is derivable from the start symbol by the grammar's rules.
C18_SentencesDerivable ==
    [][(last'.op = "sentences" /\ last'.result = "ok") =>
          \A w \in SentencesValue :
              /\ Range(w) \subseteq terminals
              /\ IsDerivable(rules, StartSymbol, w)]_vars

\* C19: reading sentences or is_finite leaves the rules and the symbols of
\* the store as they were, whether the grammar is finite or not.
C19_ReadsDoNotMutate ==
    [][last'.op \in {"sentences", "is_finite"} =>
          /\ rules' = rules
          /\ symbols' = symbols]_vars

\* sentences returned for a grammar with a reachable cycle, and loop removal
\* from its start symbol removes an edge.
C19_Witness ==
    /\ last.op = "sentences"
    /\ last.result = "ok"
    /\ HasReachableCycle(rules, start_symbol)
    /\ remove_loops_from_multidigraph(graph, start_symbol).graph # graph

\* The rules of the store in the order add_rule stored them: in a store
\* built by add_rule alone the rule ids are 0, 1, ... in that order.
Inserted == [i \in 1..Cardinality(graph.ids) |-> get_rule_by_id(graph, i - 1)]

\* The orders in which the rules of the store can be added.
Orders == {f \in [DOMAIN Inserted -> DOMAIN Inserted] : \A i, j \in DOMAIN Inserted : f[i] = f[j] => i = j}

\* The store built by adding the rules of the store in the given order.
Reordered(order) == Built([i \in DOMAIN Inserted |-> Inserted[order[i]]])

\* What the sentences getter yields: the set, or the exception it raises.
Outcome(store) == LET r == sentences_of(store) IN <<r.value, r.raised>>

Choices(positions) ==
    {c \in [DOMAIN positions -> 1..MaxAlternatives + 1] :
        \A i \in DOMAIN positions : c[i] \in DOMAIN positions[i]}

\* The possibilities chosen, concatenated in position order.
RECURSIVE Chosen(_, _)
Chosen(positions, c) ==
    IF positions = <<>> THEN <<>>
    ELSE LET n == Len(positions)
         IN  Chosen(SubSeq(positions, 1, n - 1), [i \in 1..n - 1 |-> c[i]]) \o positions[n][c[n]]

\* out holds one sequence per choice: as many sequences as there are choices,
\* each concatenation as often as there are choices that give it.
IsProduct(out, positions) ==
    /\ Len(out) = Cardinality(Choices(positions))
    /\ \A c \in Choices(positions) :
          Cardinality({i \in DOMAIN out : out[i] = Chosen(positions, c)})
              = Cardinality({d \in Choices(positions) :
                                Chosen(positions, d) = Chosen(positions, c)})

\* C21 as stated: the result of get_all_combinations holds exactly one
\* sequence per choice of one possibility per position, the possibilities
\* concatenated in position order; no position gives the empty sequence alone.
C21_CartesianProduct ==
    last.op = "get_all_combinations" =>
        IsProduct(combinations.result, combinations.positions)

\* The positions that have at least one possibility.
Occupied(positions) == SelectSeq(positions, LAMBDA p : p # <<>>)

\* C21, amended: the result holds exactly one sequence per choice of one
\* possibility per position that has possibilities; a position without
\* possibilities is passed over.
C21_ProductOfOccupied ==
    last.op = "get_all_combinations" =>
        IsProduct(combinations.result, Occupied(combinations.positions))

\* get_all_combinations was called with a position of two different
\* possibilities and a position without possibilities, and returned two
\* different sequences.
C21_Witness ==
    /\ last.op = "get_all_combinations"
    /\ Len(combinations.positions) = 2
    /\ Len(combinations.positions[1]) = 2
    /\ combinations.positions[2] = <<>>
    /\ Len(combinations.result) = 2
    /\ combinations.result[1] # combinations.result[2]

\* C22: no two rule ids under the same lhs have the same rhs sequence, in
\* every state reached by add_rule, remove_rule, remove_symbol and
\* make_symbol_terminal.
C22_NoDuplicateRules ==
    \A i, j \in graph.ids :
        get_rule_by_id(graph, i) = get_rule_by_id(graph, j) => i = j

\* C23: every rule id has exactly one predecessor and it is a symbol of the
\* store, so reading rules, rules_containing or the start symbol never fails
\* an assertion of __get_lhs_by_rule_id.
C23_OnePredecessor ==
    /\ \A rule_id \in graph.ids :
          /\ Cardinality(RulePredecessors(graph, rule_id)) = 1
          /\ RulePredecessors(graph, rule_id) \subseteq symbols
    /\ \A r \in rules : r.lhs # AssertionError
    /\ \A s \in symbols : \A r \in rules_containing(s) : r.lhs # AssertionError
    /\ StartSymbolValue(graph, start_symbol) # AssertionError

\* A symbol that a remaining rule mentioned was removed, rules are left and
\* at least two rules have been removed since the store was created.
C23_Witness ==
    /\ last.op = "remove_symbol"
    /\ last.result = "ok"
    /\ graph.ids # {}
    /\ \E a \in graph.arcs : a[2] >= Cardinality({b \in graph.arcs : b[1] = a[1]})
    /\ next_rule_id > Cardinality(graph.ids) + 1

\* C24: the rhs read back for a rule id is the rhs it was added with (with
\* repeated symbols and with the empty rhs), and a step that keeps the rule
\* id leaves its rhs as it was, except that remove_symbol(s) deletes the
\* occurrences of s and keeps the order of the others.
C24_RhsReadBack ==
    [][/\ (last'.op = "add_rule" /\ next_rule_id' # next_rule_id) =>
              /\ next_rule_id \in graph'.ids
              /\ get_rule_by_id(graph', next_rule_id) = last'.rule
       /\ \A rule_id \in graph.ids \cap graph'.ids :
              get_rhs_by_rule_id(graph', rule_id) =
                  IF last'.op = "remove_symbol"
                  THEN Without(get_rhs_by_rule_id(graph, rule_id), last'.sym)
                  ELSE get_rhs_by_rule_id(graph, rule_id)]_vars

\* A rule that repeats a symbol in its rhs is stored, and another rule has
\* lost the first symbol of its rhs to remove_symbol.
C24_Witness ==
    /\ last.op = "remove_symbol"
    /\ last.result = "ok"
    /\ \E rule_id \in graph.ids :
          /\ Len(get_rhs_by_rule_id(graph, rule_id)) = 2
          /\ Cardinality(Range(get_rhs_by_rule_id(graph, rule_id))) = 1
    /\ \E rule_id \in graph.ids :
          {a[2] : a \in {b \in graph.arcs : b[1] = rule_id}} = {1}

\* The edges of g on the paths that begin at a symbol, or at a rule id, and
\* come to no node twice; visited holds the nodes of the path so far.
RECURSIVE PathEdgesFromSymbol(_, _, _)
RECURSIVE PathEdgesFromRule(_, _, _)
PathEdgesFromSymbol(g, symbol, visited) ==
    LET v1 == [visited EXCEPT !.syms = @ \cup {symbol}]
        onward == {p \in g.prod : p[1] = symbol /\ p[2] \notin v1.ids}
    IN  [prod |-> onward \cup
                  UNION {PathEdgesFromRule(g, p[2], v1).prod : p \in onward},
         arcs |-> UNION {PathEdgesFromRule(g, p[2], v1).arcs : p \in onward}]

PathEdgesFromRule(g, rule_id, visited) ==
    LET v1 == [visited EXCEPT !.ids = @ \cup {rule_id}]
        onward == {a \in g.arcs : a[1] = rule_id /\ a[3] \notin v1.syms}
    IN  [prod |-> UNION {PathEdgesFromSymbol(g, a[3], v1).prod : a \in onward},
         arcs |-> onward \cup
                  UNION {PathEdgesFromSymbol(g, a[3], v1).arcs : a \in onward}]

\* The edges of g that loop removal from start takes away.
RemovedEdges(g, start) ==
    LET r == remove_loops_from_multidigraph(g, start)
    IN  [prod |-> g.prod \ r.graph.prod, arcs |-> g.arcs \ r.graph.arcs]

\* Every edge that loop removal from start takes away closes a cycle that
\* can be reached from start: its target leads back to its source.
OnlyCycleEdges(g, start) ==
    LET removed == RemovedEdges(g, start)
        rs == rules_of(g)
    IN  /\ \A p \in removed.prod :
              /\ p[1] \in Reachable(rs, {start})
              /\ p[1] \in Reachable(rs, Range(get_rhs_by_rule_id(g, p[2])))
        /\ \A a \in removed.arcs :
              /\ get_lhs_by_rule_id(g, a[1]) \in Reachable(rs, {start})
              /\ get_lhs_by_rule_id(g, a[1]) \in Reachable(rs, {a[3]})

\* Loop removal from start takes nothing away when no cycle can be reached.
NothingWithoutCycle(g, start) ==
    ~HasReachableCycle(rules_of(g), start) =>
        remove_loops_from_multidigraph(g, start) =
            [graph |-> g, traversed |-> NoNodes, raised |-> None]

\* Loop removal from start keeps every edge of every path from start that
\* comes to no node twice.
PathsKept(g, start) ==
    LET kept == remove_loops_from_multidigraph(g, start).graph
        paths == PathEdgesFromSymbol(g, start, NoNodes)
    IN  /\ paths.prod \subseteq kept.prod
        /\ paths.arcs \subseteq kept.arcs

\* C25: loop removal takes away only edges that close a cycle, takes nothing
\* away from a graph without a cycle reachable from the start node, and
\* every path from the start node that passes through no cycle is still
\* there afterwards.
C25_PathsPreserved ==
    \A start \in symbols :
        /\ OnlyCycleEdges(graph, start)
        /\ NothingWithoutCycle(graph, start)
        /\ PathsKept(graph, start)

\* The edges of g that lie on no cycle: the target does not lead back to the
\* source.
EdgesOffCycles(g) ==
    LET rs == rules_of(g)
    IN  [prod |-> {p \in g.prod :
                      p[1] \notin Reachable(rs, Range(get_rhs_by_rule_id(g, p[2])))},
         arcs |-> {a \in g.arcs :
                      get_lhs_by_rule_id(g, a[1]) \notin Reachable(rs, {a[3]})}]

\* C25, amended: loop removal takes away only edges that close a cycle
\* reachable from the start node, takes nothing away from a graph without
\* such a cycle, and keeps every edge that lies on no cycle, hence every path
\* made of such edges.
C25_OnlyCycleEdges ==
    \A start \in symbols :
        LET kept == remove_loops_from_multidigraph(graph, start).graph
        IN  /\ OnlyCycleEdges(graph, start)
            /\ NothingWithoutCycle(graph, start)
            /\ EdgesOffCycles(graph).prod \subseteq kept.prod
            /\ EdgesOffCycles(graph).arcs \subseteq kept.arcs

\* For some start node loop removal returns with edges taken away, and one
\* of them lies on a path from the start node that comes to no node twice;
\* another rule of the store lies on no cycle.
C25_Witness ==
    /\ last.op = "add_rule"
    /\ \E start \in symbols :
          /\ remove_loops_from_multidigraph(graph, start).raised = None
          /\ RemovedEdges(graph, start).arcs \cap
                 PathEdgesFromSymbol(graph, start, NoNodes).arcs # {}
          /\ EdgesOffCycles(graph).arcs \cap
                 PathEdgesFromSymbol(graph, start, NoNodes).arcs # {}

\* C26: no operation of a store lowers its RuleId counter, every rule id in
\* a store is below the store's counter, a rule id that add_rule mints is
\* the counter's value before the call, hence above every rule id the store
\* minted before, removed or not, and copy() gives the copy the counter's
\* value.
C26_RuleIdsNotReused ==
    [][/\ last'.op # "use_copy" => next_rule_id' >= next_rule_id
       /\ \A rule_id \in graph'.ids : rule_id < next_rule_id'
       /\ copies' # <<>> => \A rule_id \in Copied'.graph.ids : rule_id < Copied'.next_rule_id
       /\ last'.op \in Mutations =>
             /\ graph'.ids \ graph.ids \subseteq {next_rule_id}
             /\ next_rule_id' = next_rule_id + Cardinality(graph'.ids \ graph.ids)
       /\ last'.op = "copy" => Copied'.next_rule_id = next_rule_id]_vars

\* A copy was made of a store that had removed a rule, the client went on
\* with the copy and added a rule to it: the rule has the highest rule id and
\* fewer rules are stored than were minted.
C26_Witness ==
    /\ last.op = "add_rule"
    /\ copies # <<>>
    /\ Copied.next_rule_id > Cardinality(Copied.graph.ids)
    /\ next_rule_id > Copied.next_rule_id
    /\ next_rule_id - 1 \in graph.ids
    /\ Cardinality(graph.ids) < next_rule_id

ReadStore == Store(graph, next_rule_id, start_symbol)
UnreadStore == Store(graph, next_rule_id, None)

\* What start_symbol, is_finite() and sentences return when read of a store.
Reads(store) ==
    LET start == StartSymbolValue(store.graph, store.start_symbol)
    IN  <<start, is_finite_of(store.graph, start), Outcome(store)>>

\* C28: a store that was read between its mutations and a store that was not
\* return the same start symbol, the same is_finite() and the same sentences.
C28_ReadsArePure == Reads(ReadStore) = Reads(UnreadStore)

\* C29: for every graph and start node, also when a rhs holds a recursive
\* symbol more than once, loop removal returns without raising, leaves the
\* set of nodes on the active path empty, and every rule id still has the
\* edge from its lhs.
C29_LoopRemovalCompletes ==
    \A start \in symbols :
        LET r == remove_loops_from_multidigraph(graph, start)
        IN  /\ r.raised = None
            /\ r.traversed = NoNodes
            /\ r.graph.prod = graph.prod

====
